---- MODULE Spec2Model ----
(***************************************************************************)
(* docker-healthchecks: the container manager (container_manager.rs), the  *)
(* healthchecks.io interface (healthchecks.rs) and the tasks that run      *)
(* them (event_handler.rs), as a state machine.                            *)
(*                                                                         *)
(* Option<T> is a sequence of length 0 (None) or 1 (Some(x)).  A HashMap   *)
(* is a function whose DOMAIN is its key set, a HashSet is a set.          *)
(***************************************************************************)
EXTENDS Naturals, Integers, Sequences, FiniteSets, TLC

(* ------------------------------ bounds -------------------------------- *)

\* container ids known to the docker daemon: 1..NumIds
NumIds == 2
\* concurrently running tasks (one per docker event, event_handler.rs:33)
NumTasks == 2
\* largest configured ping_retries explored
MaxRetries == 2
\* operations started over one behaviour
MaxOps == 2
\* operations started over one behaviour of operations that follow each other
MaxSoloOps == 4
\* largest number of seconds a setting of the configuration is given
MaxSeconds == 1

Ids == 1..NumIds
Tasks == 1..NumTasks
Endpoints == {"e1", "e2"}

(* --------------------------- data model ------------------------------- *)

None == << >>
Some(x) == <<x>>

\* enum Health, in declaration order (derive(PartialOrd, Ord))
Health == {"Healthy", "Unhealthy", "Starting"}

\* the derived Ord of Health: the position of the variant in the enum
HealthOrd(h) ==
    CASE h = "Healthy" -> 0
      [] h = "Unhealthy" -> 1
      [] h = "Starting" -> 2

OptionHealth == {None} \cup {Some(h) : h \in Health}

\* struct Container
Container == [ping_url : Endpoints, health : OptionHealth]

\* every map of monitored containers over the ids
Registries == UNION {[S -> Container] : S \in SUBSET Ids}

\* an unwrap that gives the default for a value that is there
unwrap_orDefault(opt, default) == default

\* Option::unwrap_or
unwrap_or(opt, default) == IF opt = None THEN default ELSE opt[1]

\* HashMap::insert
MapInsert(map, k, v) ==
    [x \in (DOMAIN map) \cup {k} |-> IF x = k THEN v ELSE map[x]]

\* HashMap::remove (the map that is left)
MapRemove(map, k) == [x \in (DOMAIN map) \ {k} |-> map[x]]

\* HashMap::new
EmptyMap == << >>

\* the orders in which an iterator may visit the keys of a HashMap
Orders(S) ==
    {s \in [1..Cardinality(S) -> S] :
        \A i, j \in 1..Cardinality(S) : i # j => s[i] # s[j]}

(* ---------------------------- variables ------------------------------- *)

VARIABLES
    monitored,     \* ManagedContainers.monitored_containers : id -> Container
    ignored,       \* ManagedContainers.ignored_containers : set of ids
    writer,        \* holder of the write guard of ContainerManager.containers
    starting,      \* Healthchecks.starting : set of ping urls
    ping_retries,  \* Healthchecks.ping_retries
    labels,        \* docker daemon: the healthchecks.url label of each container
    tasks,         \* the spawned tasks: position and locals of each
    refresh,       \* the task that runs fetch_containers
    ops,           \* operations started so far
    status_out,    \* the last map get_status_map returned, Some(map)
    last_call,     \* history: per ping url, the health of the latest ping call
    last_sent,     \* history: per ping url, the health of the latest request
    passed,        \* history: per ping url, the starting pings that passed the
                   \* dedup check since the last other ping passed it
    main           \* main: its position and the configuration it loaded

vars == <<monitored, ignored, writer, starting, ping_retries, labels, tasks,
          refresh, ops, status_out, last_call, last_sent, passed, main>>

(* ------------------------ get_status_map ------------------------------ *)

\* get_status_map that keeps the health of the first container of a url
StatusStepFirstWins(status, container) ==
    LET health == unwrap_or(container.health, "Healthy")
        url == container.ping_url
    IN  IF url \in DOMAIN status THEN status
        ELSE MapInsert(status, url, health)

\* the body of the for loop of get_status_map for one container
StatusStep(status, container) ==
    LET health == unwrap_or(container.health, "Healthy")
        url == container.ping_url
    IN  IF url \in DOMAIN status
        THEN IF HealthOrd(health) > HealthOrd(status[url])
             THEN [status EXCEPT ![url] = health]
             ELSE status
        ELSE MapInsert(status, url, health)

RECURSIVE StatusFold(_, _)
\* the for loop of get_status_map over the values in iteration order
StatusFold(values, status) ==
    IF values = << >> THEN status
    ELSE StatusFold(Tail(values), StatusStep(status, Head(values)))

\* a get_status_map that finds no container
get_status_mapEmpty(map, order) == EmptyMap

\* get_status_map with the HashMap visited in the given order of keys
get_status_map(map, order) ==
    StatusFold([i \in 1..Len(order) |-> map[order[i]]], EmptyMap)

(* ------------------------------- main --------------------------------- *)

\* Config::default, without the socket path
DefaultConfig ==
    [ping_interval |-> 60, ping_retries |-> 5, ping_timeout |-> 50,
     fetch_interval |-> 600, fetch_timeout |-> 300, event_timeout |-> 60]

\* main once its tasks are spawned, with the default configuration; the
\* event task is about to subscribe to the event stream
Running ==
    [pc |-> "running", config |-> DefaultConfig, sweep |-> "idle",
     events |-> "subscribing"]

(* ------------------------------ tasks --------------------------------- *)

\* a task that runs nothing.  The fields from inspects on are history: what
\* the running operation has done so far
IdleTask ==
    [op |-> "idle", pc |-> "idle", id |-> 0, arg |-> None, container |-> None,
     url |-> "", health |-> None, target |-> "", retries |-> 0,
     inspects |-> 0, dispatched |-> << >>, attempts |-> << >>,
     result |-> "none", skipped |-> FALSE, prev |-> None, rank |-> 0,
     event |-> None]

\* the task of fetch_containers when it runs nothing: its locals, and as
\* history the ids it listed, the ids that were registered when it listed,
\* the failure it met, whether it swapped, and the ids that were monitored
\* when it did
IdleRefresh ==
    [pc |-> "idle", todo |-> << >>, containers |-> EmptyMap,
     ignored_containers |-> {}, result |-> "none", failure |-> "none",
     swapped |-> FALSE, listed |-> {}, known |-> {}, replaced |-> {}]

\* the task has returned with the given result: the locals of ping are
\* dropped, the history stays
Finish(task, result) ==
    [task EXCEPT !.pc = "done", !.result = result, !.target = "", !.retries = 0]

\* the task calls Healthchecks::ping(url, health)
EnterPing(task, url, health) ==
    [task EXCEPT !.pc = "ping_lock", !.url = url, !.health = Some(health),
                 !.dispatched = Append(@, [url |-> url, health |-> health]),
                 !.prev = last_call[url]]

(* -------------------------- Healthchecks::ping ------------------------ *)

\* the early return that forgets the health of the new ping
DedupSkipsAnyHealth(set, url, health) == url \in set

\* a ping without the early return
DedupSkipsNever(set, url, health) == FALSE

\* the early return of ping: a starting ping for a url in the set
DedupSkips(set, url, health) == url \in set /\ health = "Starting"

\* a dedup update that forgets to record a starting ping
DedupUpdateNoInsert(set, url, health) ==
    IF url \in set /\ health # "Starting" THEN set \ {url} ELSE set

\* the set `starting` as ping leaves it when it drops the guard
DedupUpdate(set, url, health) ==
    IF url \in set
    THEN IF health = "Starting" THEN set ELSE set \ {url}
    ELSE IF health = "Starting" THEN set \cup {url} ELSE set

\* target urls with the suffixes of Unhealthy and Starting exchanged
PingUrlSwapped(url, health) ==
    CASE health = "Healthy" -> url
      [] health = "Unhealthy" -> url \o "/start"
      [] health = "Starting" -> url \o "/fail"

\* the url a ping is posted to
PingUrl(url, health) ==
    CASE health = "Healthy" -> url
      [] health = "Unhealthy" -> url \o "/fail"
      [] health = "Starting" -> url \o "/start"

\* an exhaustion test that is off by one
RetriesExhaustedAtOne(retries) == retries = 1

\* all retries are exhausted
RetriesExhausted(retries) == retries = 0

\* a caller outside the container manager calls ping(url, health) (the
\* tasks are interchangeable: the first free one is taken)
PingCall(t, url, health) ==
    /\ tasks[t].pc = "idle"
    /\ \A u \in Tasks : u < t => tasks[u].pc # "idle"
    /\ tasks' = [tasks EXCEPT ![t] = [EnterPing(IdleTask, url, health)
                                        EXCEPT !.op = "ping"]]
    /\ UNCHANGED <<monitored, ignored, writer, starting, ping_retries, labels,
                   refresh, status_out, last_sent, passed, main>>

\* ping, from taking the write guard of `starting` to dropping it, then the
\* target url and the retry counter
PingDedup(t) ==
    LET task == tasks[t]
        url == task.url
        health == task.health[1]
    IN  /\ task.pc = "ping_lock"
        /\ starting' = DedupUpdate(starting, url, health)
        /\ passed' = [passed EXCEPT ![url] =
                IF DedupSkips(starting, url, health) THEN @
                ELSE IF health = "Starting" THEN @ + 1 ELSE 0]
        /\ tasks' = [tasks EXCEPT ![t] =
                IF DedupSkips(starting, url, health)
                THEN [Finish(task, "ok") EXCEPT !.skipped = TRUE,
                                                !.rank = passed[url]]
                ELSE [task EXCEPT !.pc = "ping_try",
                                  !.rank = passed[url],
                                  !.target = PingUrl(url, health),
                                  !.retries = ping_retries]]
        /\ UNCHANGED <<monitored, ignored, writer, ping_retries, labels,
                       refresh, status_out, last_call, last_sent, main>>

\* one try_ping of the while loop of ping, which succeeds or fails
PingAttempt(t, ok) ==
    LET task == tasks[t]
        tried == [task EXCEPT !.attempts =
                     Append(@, [url |-> task.target, ok |-> ok])]
    IN  /\ task.pc = "ping_try"
        /\ tasks' = [tasks EXCEPT ![t] =
                IF ok THEN Finish(tried, "ok")
                ELSE IF RetriesExhausted(task.retries) THEN Finish(tried, "err")
                ELSE [tried EXCEPT !.retries = @ - 1, !.pc = "ping_sleep"]]
        /\ UNCHANGED <<monitored, ignored, writer, starting, ping_retries,
                       labels, refresh, status_out, last_call, passed, main>>

\* the sleep between two attempts is over
PingWake(t) ==
    /\ tasks[t].pc = "ping_sleep"
    /\ tasks' = [tasks EXCEPT ![t].pc = "ping_try"]
    /\ UNCHANGED <<monitored, ignored, writer, starting, ping_retries, labels,
                   refresh, status_out, last_call, last_sent, passed, main>>

\* the task's future has completed and is dropped
Return(t) ==
    /\ tasks[t].pc = "done"
    /\ tasks' = [tasks EXCEPT ![t] = IdleTask]
    /\ UNCHANGED <<monitored, ignored, writer, starting, ping_retries, labels,
                   refresh, status_out, last_call, last_sent, passed, main>>

(* --------------------------- docker daemon ---------------------------- *)

\* the health status strings an inspect response can carry; "absent" is a
\* response whose state has no health object or no status, "nostate" one
\* with no state object at all
StatusStrings ==
    {"absent", "nostate", "none", "starting", "healthy", "unhealthy", "paused"}

\* the inspect responses of the daemon for a container: the call fails, or
\* it answers with the container's labels (config_ok: a config object with a
\* labels object) and some health status
InspectResponses(id) ==
    [inspect_ok : {TRUE}, config_ok : {TRUE}, label : {labels[id]},
     status : StatusStrings]
    \cup {[inspect_ok |-> TRUE, config_ok |-> FALSE, label |-> None,
           status |-> "absent"],
          [inspect_ok |-> FALSE, config_ok |-> FALSE, label |-> None,
           status |-> "absent"]}

\* every response of the daemon to an inspect call
AllResponses == UNION {InspectResponses(id) : id \in Ids}

\* Result<T>
Ok(v) == [ok |-> TRUE, value |-> v]
Err == [ok |-> FALSE, value |-> None]

\* get_health
get_health(data) ==
    CASE data.status = "nostate" -> Err
      [] data.status \in {"absent", "none"} -> Ok(None)
      [] data.status = "starting" -> Ok(Some("Starting"))
      [] data.status = "healthy" -> Ok(Some("Healthy"))
      [] data.status = "unhealthy" -> Ok(Some("Unhealthy"))
      [] OTHER -> Err

\* get_label
get_label(data) == IF data.config_ok THEN Ok(data.label) ELSE Err

\* a fetch that takes a labelled container without health check for an
\* unlabelled one
fetch_containerHealthless(data) ==
    IF ~data.inspect_ok THEN Err
    ELSE IF ~get_label(data).ok THEN Err
    ELSE IF get_label(data).value # None
         THEN IF get_health(data).ok
              THEN IF get_health(data).value = None THEN Ok(None)
                   ELSE Ok(Some([ping_url |-> get_label(data).value[1],
                                 health |-> get_health(data).value]))
              ELSE Err
         ELSE Ok(None)

\* fetch_container on the daemon's response: Err, Ok(None) for a container
\* without the label, Ok(Some(container)) otherwise
fetch_container(data) ==
    IF ~data.inspect_ok THEN Err
    ELSE IF ~get_label(data).ok THEN Err
    ELSE IF get_label(data).value # None
         THEN IF get_health(data).ok
              THEN Ok(Some([ping_url |-> get_label(data).value[1],
                            health |-> get_health(data).value]))
              ELSE Err
         ELSE Ok(None)

(* ------------------- ContainerManager: event handlers ------------------ *)

\* nobody holds the write guard of `containers`: a read or write guard can
\* be taken
Unlocked == writer = 0

\* the test of the handlers that never looks at the set
IsIgnoredNever(set, id) == FALSE

\* ignored_containers.contains(&id)
IsIgnored(set, id) == id \in set

\* ping_one that reports Healthy when the url has no container left
StatusOrDefaultHealthy(status, url) ==
    IF url \in DOMAIN status THEN status[url] ELSE "Healthy"

\* ping_one: the health of the url in the status map, or Unhealthy
StatusOrDefault(status, url) ==
    IF url \in DOMAIN status THEN status[url] ELSE "Unhealthy"

\* the test of container_died that pings as soon as the url is still in use
LastHolderGoneInverted(status, url) == url \in DOMAIN status

\* container_died: no monitored container has the url any more
LastHolderGone(status, url) == url \notin DOMAIN status

\* a task starts the handler of an event for container id (the tasks are
\* interchangeable: the first free one is taken)
Spawn(t, op, pc, id, arg) ==
    /\ tasks[t].pc = "idle"
    /\ \A u \in Tasks : u < t => tasks[u].pc # "idle"
    /\ tasks' = [tasks EXCEPT ![t] =
            [IdleTask EXCEPT !.op = op, !.pc = pc, !.id = id, !.arg = arg]]
    /\ UNCHANGED <<monitored, ignored, writer, starting, ping_retries, labels,
                   refresh, status_out, last_call, last_sent, passed, main>>

\* container_started is called
EventStarted(t, id) == Spawn(t, "started", "st_check", id, None)

\* container_died is called
EventDied(t, id) == Spawn(t, "died", "di_ignored", id, None)

\* container_health_update is called
EventHealth(t, id, health) == Spawn(t, "health", "hu_check", id, Some(health))

\* container_started, container_health_update: the test of the ignored set
\* under a read guard
CheckIgnored(t) ==
    LET task == tasks[t]
    IN  /\ task.pc \in {"st_check", "hu_check"}
        /\ Unlocked
        /\ tasks' = [tasks EXCEPT ![t] =
                IF IsIgnored(ignored, task.id) THEN Finish(task, "ok")
                ELSE IF task.pc = "st_check" THEN [task EXCEPT !.pc = "st_inspect"]
                ELSE [task EXCEPT !.pc = "hu_lock"]]
        /\ UNCHANGED <<monitored, ignored, writer, starting, ping_retries,
                       labels, refresh, status_out,
                       last_call, last_sent, passed, main>>

\* container_started: fetch_container, then the insert of its result under a
\* write guard.  The fetch reads only the daemon, so its answer is taken at
\* the moment the guard is granted; an error returns at once
StartedInspect(t, data) ==
    LET task == tasks[t]
        res == fetch_container(data)
        seen == [task EXCEPT !.inspects = @ + 1]
    IN  /\ task.pc = "st_inspect"
        /\ data \in InspectResponses(task.id)
        /\ res.ok => Unlocked
        /\ monitored' = IF res.ok /\ res.value # None
                        THEN MapInsert(monitored, task.id, res.value[1])
                        ELSE monitored
        /\ ignored' = IF res.ok /\ res.value = None
                      THEN ignored \cup {task.id} ELSE ignored
        /\ tasks' = [tasks EXCEPT ![t] =
                IF ~res.ok THEN Finish(seen, "err")
                ELSE IF res.value # None
                THEN [seen EXCEPT !.container = res.value, !.pc = "pone_read",
                                  !.url = res.value[1].ping_url]
                ELSE Finish(seen, "ok")]
        /\ UNCHANGED <<writer, starting, ping_retries, labels, refresh,
                       status_out, last_call, last_sent, passed, main>>

\* ping_one: get_status_map under a read guard, then the call of ping
PingOne(t, order) ==
    LET task == tasks[t]
        status == get_status_map(monitored, order)
    IN  /\ task.pc = "pone_read"
        /\ Unlocked
        /\ tasks' = [tasks EXCEPT ![t] =
                EnterPing(task, task.url, StatusOrDefault(status, task.url))]
        /\ UNCHANGED <<monitored, ignored, writer, starting, ping_retries,
                       labels, refresh, status_out,
                       last_call, last_sent, passed, main>>

\* container_died: ignored_containers.remove under a write guard
DiedIgnored(t) ==
    LET task == tasks[t]
    IN  /\ task.pc = "di_ignored"
        /\ Unlocked
        /\ ignored' = ignored \ {task.id}
        /\ tasks' = [tasks EXCEPT ![t] =
                IF task.id \in ignored THEN Finish(task, "ok")
                ELSE [task EXCEPT !.pc = "di_remove"]]
        /\ UNCHANGED <<monitored, writer, starting, ping_retries, labels,
                       refresh, status_out, last_call, last_sent, passed, main>>

\* container_died: monitored_containers.remove under a write guard
DiedRemove(t) ==
    LET task == tasks[t]
    IN  /\ task.pc = "di_remove"
        /\ Unlocked
        /\ monitored' = MapRemove(monitored, task.id)
        /\ tasks' = [tasks EXCEPT ![t] =
                IF task.id \in DOMAIN monitored
                THEN [task EXCEPT !.container = Some(monitored[task.id]),
                                  !.url = monitored[task.id].ping_url,
                                  !.pc = "di_read"]
                ELSE Finish(task, "ok")]
        /\ UNCHANGED <<ignored, writer, starting, ping_retries, labels,
                       refresh, status_out, last_call, last_sent, passed, main>>

\* container_died: get_status_map under a read guard, and the Unhealthy ping
\* when the url has no container left
DiedRead(t, order) ==
    LET task == tasks[t]
        status == get_status_map(monitored, order)
    IN  /\ task.pc = "di_read"
        /\ Unlocked
        /\ tasks' = [tasks EXCEPT ![t] =
                IF LastHolderGone(status, task.url)
                THEN EnterPing(task, task.url, "Unhealthy")
                ELSE Finish(task, "ok")]
        /\ UNCHANGED <<monitored, ignored, writer, starting, ping_retries,
                       labels, refresh, status_out,
                       last_call, last_sent, passed, main>>

\* an update that gives the new health to every monitored container
UpdateHealthOfAll(map, id, health) ==
    [i \in DOMAIN map |-> [map[i] EXCEPT !.health = Some(health)]]

\* container_health_update: container.health = Some(health) on the record
\* get_mut found
UpdateHealth(map, id, health) == [map EXCEPT ![id].health = Some(health)]

\* container_health_update: the write guard is taken; a monitored container
\* gets the new health and the guard is dropped, otherwise the guard is kept
\* over fetch_container
HealthLock(t) ==
    LET task == tasks[t]
    IN  /\ task.pc = "hu_lock"
        /\ Unlocked
        /\ IF task.id \in DOMAIN monitored
           THEN /\ monitored' = UpdateHealth(monitored, task.id, task.arg[1])
                /\ tasks' = [tasks EXCEPT ![t] =
                        [task EXCEPT !.url = monitored[task.id].ping_url,
                                     !.pc = "pone_read"]]
                /\ UNCHANGED writer
           ELSE /\ writer' = t
                /\ tasks' = [tasks EXCEPT ![t].pc = "hu_inspect"]
                /\ UNCHANGED monitored
        /\ UNCHANGED <<ignored, starting, ping_retries, labels, refresh,
                       status_out, last_call, last_sent, passed, main>>

\* a test that takes a failed fetch for a container without the label
FetchedNoneOrFailed(res) == res.value = None

\* container_health_update: the else branch, fetch_container returned
\* Ok(None)
FetchedNone(res) == res.ok /\ res.value = None

\* container_health_update: fetch_container under the write guard, the insert
\* of its result, and the drop of the guard
HealthInspect(t, data) ==
    LET task == tasks[t]
        res == fetch_container(data)
        seen == [task EXCEPT !.inspects = @ + 1]
    IN  /\ task.pc = "hu_inspect"
        /\ writer = t
        /\ data \in InspectResponses(task.id)
        /\ writer' = 0
        /\ monitored' = IF res.ok /\ res.value # None
                        THEN MapInsert(monitored, task.id, res.value[1])
                        ELSE monitored
        /\ ignored' = IF FetchedNone(res)
                      THEN ignored \cup {task.id} ELSE ignored
        /\ tasks' = [tasks EXCEPT ![t] =
                IF ~res.ok THEN Finish(seen, "err")
                ELSE IF res.value # None
                THEN [seen EXCEPT !.container = res.value, !.pc = "pone_read",
                                  !.url = res.value[1].ping_url]
                ELSE Finish(seen, "ok")]
        /\ UNCHANGED <<starting, ping_retries, labels, refresh, status_out,
                       last_call, last_sent, passed, main>>

\* handle_raw_event: the timeout expires and the handler's future is dropped
\* where it waits, with its locals and the guard it holds
Timeout(t) ==
    /\ tasks[t].op \in {"started", "died", "health"}
    /\ tasks[t].pc # "done"
    /\ tasks' = [tasks EXCEPT ![t] = IdleTask]
    /\ writer' = IF writer = t THEN 0 ELSE writer
    /\ UNCHANGED <<monitored, ignored, starting, ping_retries, labels, refresh,
                   status_out, last_call, last_sent, passed, main>>

(* ------------------ ContainerManager::fetch_containers ----------------- *)

RECURSIVE Ascending(_)
\* the ids of a set as summaries, in ascending order
Ascending(S) ==
    IF S = {} THEN << >>
    ELSE LET least == CHOOSE i \in S : \A j \in S : i <= j
         IN  <<Some(least)>> \o Ascending(S \ {least})

\* the answers of the daemon to a list call.  The loop builds the same
\* collections for every order of the summaries, so ids are listed in
\* ascending order; a summary without id, if there is one, comes last, after
\* fetches that succeeded
Listings ==
    {Ascending(S) : S \in SUBSET Ids}
    \cup {Ascending(S) \o <<None>> : S \in SUBSET Ids}

\* an error path that leaves the loop and goes on to the swap
RefreshOnErrorSwaps(r, failure) ==
    [r EXCEPT !.pc = "swap", !.todo = << >>, !.failure = failure]

\* the `?` of fetch_containers: the call returns the error
RefreshOnError(r, failure) ==
    [r EXCEPT !.pc = "done", !.result = "err", !.failure = failure]

\* a loop body whose insert into the ignored set lost its else
RefreshLoopBodyNoElse(r, id, res) ==
    [r EXCEPT !.containers =
                 IF res.value # None THEN MapInsert(@, id, res.value[1]) ELSE @,
              !.ignored_containers = @ \cup {id}]

\* the body of the for loop of fetch_containers for a fetched container
RefreshLoopBody(r, id, res) ==
    IF res.value # None
    THEN [r EXCEPT !.containers = MapInsert(@, id, res.value[1])]
    ELSE [r EXCEPT !.ignored_containers = @ \cup {id}]

\* a swap that merges the new ignored set into the old one
SwappedIgnoredMerged(r) == ignored \cup r.ignored_containers

\* a swap that keeps the monitored containers it did not fetch
SwappedMonitoredMerged(r) ==
    [i \in DOMAIN monitored \cup DOMAIN r.containers |->
        IF i \in DOMAIN r.containers THEN r.containers[i] ELSE monitored[i]]

\* the two assignments of fetch_containers under its write guard
SwappedMonitored(r) == r.containers
SwappedIgnored(r) == r.ignored_containers

RECURSIVE FetchLoop(_, _)
\* the for loop of fetch_containers over the summaries left, with the answer
\* of the daemon to the inspect of each container; it ends at the first
\* error, or with every summary fetched and the swap to come
FetchLoop(r, responses) ==
    IF r.pc # "loop" THEN r
    ELSE IF r.todo = << >> THEN [r EXCEPT !.pc = "swap"]
    ELSE IF Head(r.todo) = None THEN FetchLoop(RefreshOnError(r, "noid"), responses)
    ELSE LET id == Head(r.todo)[1]
             res == fetch_container(responses[id])
         IN  IF ~res.ok
             THEN FetchLoop(RefreshOnError(r, "inspect"), responses)
             ELSE FetchLoop(RefreshLoopBody([r EXCEPT !.todo = Tail(@)], id, res),
                            responses)

\* fetch_containers is called
RefreshStart ==
    /\ refresh.pc = "idle"
    /\ refresh' = [IdleRefresh EXCEPT !.pc = "list"]
    /\ UNCHANGED <<monitored, ignored, writer, starting, ping_retries, labels,
                   tasks, status_out, last_call, last_sent, passed, main>>

\* the list call fails
RefreshListFails ==
    /\ refresh.pc = "list"
    /\ refresh' = RefreshOnError(refresh, "list")
    /\ UNCHANGED <<monitored, ignored, writer, starting, ping_retries, labels,
                   tasks, status_out, last_call, last_sent, passed, main>>

\* the list call returns the summaries
RefreshList(listing) ==
    /\ refresh.pc = "list"
    /\ refresh' = [refresh EXCEPT
            !.pc = "loop",
            !.todo = listing,
            !.listed = {listing[i][1] : i \in {j \in 1..Len(listing) :
                                                  listing[j] # None}},
            !.known = DOMAIN monitored \cup ignored]
    /\ UNCHANGED <<monitored, ignored, writer, starting, ping_retries, labels,
                   tasks, status_out, last_call, last_sent, passed, main>>

\* the for loop and what follows it: the error of a summary ends the call;
\* otherwise the write guard is taken, both collections are replaced and the
\* guard is dropped.  The fetches read only the daemon, so their answers are
\* taken at the moment the guard is granted
RefreshLoop(responses) ==
    LET r == FetchLoop(refresh, responses)
    IN  /\ refresh.pc = "loop"
        /\ \A id \in Ids : responses[id] \in InspectResponses(id)
        /\ IF r.pc = "swap"
           THEN /\ Unlocked
                /\ monitored' = SwappedMonitored(r)
                /\ ignored' = SwappedIgnored(r)
                /\ refresh' = [r EXCEPT !.pc = "done", !.result = "ok",
                                        !.swapped = TRUE,
                                        !.replaced = DOMAIN monitored]
           ELSE /\ refresh' = r
                /\ UNCHANGED <<monitored, ignored>>
        /\ UNCHANGED <<writer, starting, ping_retries, labels, tasks,
                       status_out, last_call, last_sent, passed, main>>

\* the timeout around fetch_containers expires and its future is dropped
\* with its locals
RefreshTimeout ==
    /\ refresh.pc \in {"list", "loop"}
    /\ refresh' = IdleRefresh
    /\ UNCHANGED <<monitored, ignored, writer, starting, ping_retries, labels,
                   tasks, status_out, last_call, last_sent, passed, main>>

\* a refresh loop that an error of fetch_containers ends
RefreshReturnUnlessError ==
    /\ refresh.pc = "done" /\ refresh.result = "ok"
    /\ refresh' = IdleRefresh
    /\ UNCHANGED <<monitored, ignored, writer, starting, ping_retries, labels,
                   tasks, status_out, last_call, last_sent, passed, main>>

\* the refresh loop sleeps until its next tick
RefreshReturn ==
    /\ refresh.pc = "done"
    /\ refresh' = IdleRefresh
    /\ UNCHANGED <<monitored, ignored, writer, starting, ping_retries, labels,
                   tasks, status_out, last_call, last_sent, passed, main>>

(* ------------------ the ping dispatcher and its callers ---------------- *)

InitPing ==
    /\ monitored = EmptyMap
    /\ ignored = {}
    /\ writer = 0
    /\ starting = {}
    /\ ping_retries \in 0..MaxRetries
    /\ labels = [i \in Ids |-> None]
    /\ tasks = [t \in Tasks |-> IdleTask]
    /\ refresh = IdleRefresh
    /\ ops = 0
    /\ status_out = None
    /\ last_call = [e \in Endpoints |-> None]
    /\ last_sent = [e \in Endpoints |-> None]
    /\ passed = [e \in Endpoints |-> 0]
    /\ main = Running

\* one more operation starts, of the MaxOps the behaviour may start
Budget == ops < MaxOps /\ ops' = ops + 1

\* a completed future is dropped before any other task runs on: no task
\* rests in "done"
NoneDone == \A t \in Tasks : tasks[t].pc # "done"

\* history: the call of ping(url, health) is the latest for its url
RecordCall(url, health) == last_call' = [last_call EXCEPT ![url] = Some(health)]

\* the steps of a task that is inside ping
PingSteps(t) ==
    \/ NoneDone /\ PingDedup(t) /\ UNCHANGED ops
    \/ \E ok \in BOOLEAN : NoneDone /\ PingAttempt(t, ok)
          /\ UNCHANGED <<ops, last_sent>>
    \/ NoneDone /\ PingWake(t) /\ UNCHANGED ops
    \/ Return(t) /\ UNCHANGED ops

\* concurrent callers of ping
NextPing ==
    \E t \in Tasks :
        \/ \E url \in Endpoints, health \in Health :
              NoneDone /\ PingCall(t, url, health) /\ Budget
                       /\ UNCHANGED last_call
        \/ PingSteps(t)

SpecPing == InitPing /\ [][NextPing]_vars

\* one caller, whose calls of ping follow each other
NextPingSeq ==
    \/ \E url \in Endpoints, health \in Health :
          PingCall(1, url, health) /\ RecordCall(url, health)
                                   /\ UNCHANGED ops
    \/ PingSteps(1)

SpecPingSeq == InitPing /\ [][NextPingSeq]_vars

\* the task is in a call of ping and has left the dedup check
PastDedup(k) == k.dispatched # << >> /\ k.pc \in {"ping_try", "ping_sleep", "done"}

\* C3: in a sequence of ping calls that follow each other, a Starting ping
\* for a url whose previous ping was Starting makes no http call and returns
\* success; a Healthy or Unhealthy ping makes an http call; so does a Starting
\* ping whose url had no ping before or a Healthy or Unhealthy one.
C3_ConsecutiveStarting ==
    LET k == tasks[1]
    IN  k.op = "ping" =>
          /\ k.health = Some("Starting") /\ k.prev = Some("Starting")
                => /\ k.attempts = << >>
                   /\ k.pc = "done" => k.result = "ok"
          /\ k.pc = "done" /\ k.health # Some("Starting")
                => Len(k.attempts) >= 1
          /\ k.pc = "done" /\ k.health = Some("Starting")
                           /\ k.prev # Some("Starting")
                => Len(k.attempts) >= 1

\* a Starting ping that followed a Starting ping has returned without a call
C3_Witness ==
    LET k == tasks[1]
    IN  /\ k.op = "ping" /\ k.pc = "done" /\ k.result = "ok"
        /\ k.health = Some("Starting") /\ k.prev = Some("Starting")
        /\ k.attempts = << >>

\* C4: of the Starting pings for one url that take the dedup check with no
\* other ping for the url in between, the first passes and goes on to send,
\* and every other returns success without sending: never two pass.
C4_OneStartingPasses ==
    /\ \A e \in Endpoints : passed[e] <= 1
    /\ \A t \in Tasks :
          LET k == tasks[t]
          IN  PastDedup(k) /\ k.health = Some("Starting") =>
                /\ k.rank = 0 => ~k.skipped
                /\ k.rank >= 1 =>
                      /\ k.skipped /\ k.pc = "done" /\ k.result = "ok"
                      /\ k.attempts = << >>

\* two concurrent Starting pings for one url: one is about to send, the other
\* has returned without sending
C4_Witness ==
    \E t, u \in Tasks :
        /\ t # u
        /\ tasks[t].op = "ping" /\ tasks[u].op = "ping"
        /\ tasks[t].url = tasks[u].url
        /\ tasks[t].health = Some("Starting") /\ tasks[u].health = Some("Starting")
        /\ tasks[t].pc = "ping_try" /\ tasks[t].attempts = << >>
        /\ tasks[u].pc = "done" /\ tasks[u].skipped

\* every attempt of the call failed
AllFailed(attempts) == \A i \in 1..Len(attempts) : ~attempts[i].ok

\* C5: a ping that is not deduplicated makes at most ping_retries + 1
\* attempts; it returns failure after exactly ping_retries + 1 failed
\* attempts, and success at the first attempt that succeeds; the retry
\* counter stays within 0..ping_retries.
C5_RetryCount ==
    \A t \in Tasks :
        LET k == tasks[t]
            n == Len(k.attempts)
        IN  k.dispatched # << >> =>
              /\ n <= ping_retries + 1
              /\ k.retries >= 0 /\ k.retries <= ping_retries
              /\ k.pc = "done" /\ ~k.skipped =>
                    /\ k.result \in {"ok", "err"}
                    /\ k.result = "err" =>
                          n = ping_retries + 1 /\ AllFailed(k.attempts)
                    /\ k.result = "ok" =>
                          /\ n >= 1 /\ k.attempts[n].ok
                          /\ AllFailed(SubSeq(k.attempts, 1, n - 1))
              /\ k.pc \in {"ping_try", "ping_sleep"} =>
                    AllFailed(k.attempts) /\ n + k.retries = ping_retries

\* a ping has failed after ping_retries + 1 attempts, with ping_retries >= 1
C5_Witness ==
    \E t \in Tasks :
        /\ tasks[t].pc = "done" /\ tasks[t].result = "err"
        /\ ping_retries >= 1
        /\ Len(tasks[t].attempts) = ping_retries + 1

\* C10: every http attempt of ping(url, health) goes to url for Healthy, to
\* url/fail for Unhealthy and to url/start for Starting, retries included.
C10_TargetUrl ==
    \A t \in Tasks :
        LET k == tasks[t]
        IN  \A i \in 1..Len(k.attempts) :
              /\ k.health = Some("Healthy") => k.attempts[i].url = k.url
              /\ k.health = Some("Unhealthy") =>
                    k.attempts[i].url = k.url \o "/fail"
              /\ k.health = Some("Starting") =>
                    k.attempts[i].url = k.url \o "/start"
              /\ k.attempts[i].url = k.attempts[1].url

\* an Unhealthy ping has been retried: two attempts on e1/fail
C10_Witness ==
    \E t \in Tasks :
        /\ tasks[t].health = Some("Unhealthy") /\ tasks[t].url = "e1"
        /\ Len(tasks[t].attempts) >= 2
        /\ tasks[t].attempts[2].url = "e1/fail"

(* ------------------------- the whole program -------------------------- *)

\* the daemon's containers, each with or without the healthchecks.url label
LabelChoices == {None} \cup {Some(e) : e \in Endpoints}

\* the ping urls are interchangeable: the labelled container of least id
\* carries "e1"
Labellings ==
    {l \in [Ids -> LabelChoices] :
        \A i \in Ids : l[i] = Some("e2") => \E j \in Ids : j < i /\ l[j] # None}

Init ==
    /\ monitored = EmptyMap
    /\ ignored = {}
    /\ writer = 0
    /\ starting = {}
    /\ ping_retries = 1
    /\ labels \in Labellings
    /\ tasks = [t \in Tasks |-> IdleTask]
    /\ refresh = IdleRefresh
    /\ ops = 0
    /\ status_out = None
    /\ last_call = [e \in Endpoints |-> None]
    /\ last_sent = [e \in Endpoints |-> None]
    /\ passed = [e \in Endpoints |-> 0]
    /\ main = Running

\* a docker event arrives and task t is spawned with its handler
HandlerStarts(t) ==
    \/ \E id \in Ids : EventStarted(t, id)
    \/ \E id \in Ids : EventDied(t, id)
    \/ \E id \in Ids, health \in Health : EventHealth(t, id, health)

\* the steps of the task t that handles one docker event
HandlerSteps(t) ==
    \/ CheckIgnored(t)
    \/ \E data \in AllResponses : StartedInspect(t, data)
    \/ \E order \in Orders(DOMAIN monitored) : PingOne(t, order)
    \/ DiedIgnored(t)
    \/ DiedRemove(t)
    \/ \E order \in Orders(DOMAIN monitored) : DiedRead(t, order)
    \/ HealthLock(t)
    \/ \E data \in AllResponses : HealthInspect(t, data)
    \/ Timeout(t)

\* the steps of the task that reloads the containers, once it has started
RefreshSteps ==
    \/ RefreshListFails
    \/ \E listing \in Listings : RefreshList(listing)
    \/ \E responses \in [Ids -> AllResponses] : RefreshLoop(responses)
    \/ RefreshTimeout
    \/ RefreshReturn

\* event handlers, each in its task, and the refresh, all running together
Next ==
    \/ \E t \in Tasks :
          \/ NoneDone /\ HandlerStarts(t) /\ Budget
          \/ NoneDone /\ HandlerSteps(t) /\ UNCHANGED ops
          \/ PingSteps(t)
    \/ NoneDone /\ RefreshStart /\ Budget
    \/ NoneDone /\ RefreshSteps /\ UNCHANGED ops

Spec == Init /\ [][Next]_vars

\* nothing is running: every task and the refresh are idle
Quiet == (\A t \in Tasks : tasks[t].pc = "idle") /\ refresh.pc = "idle"

\* one more operation starts, of the MaxSoloOps a behaviour of operations
\* that follow each other may start
BudgetSolo == ops < MaxSoloOps /\ ops' = ops + 1

\* the operations follow each other: one starts when nothing is running
NextSolo ==
    \/ \E t \in Tasks :
          \/ Quiet /\ HandlerStarts(t) /\ BudgetSolo
          \/ HandlerSteps(t) /\ UNCHANGED ops
          \/ PingSteps(t)
    \/ Quiet /\ RefreshStart /\ BudgetSolo
    \/ RefreshSteps /\ UNCHANGED ops

SpecSolo == Init /\ [][NextSolo]_vars

\* C1: under any interleaving of refreshes and event handlers, no container
\* id is in `monitored` and in `ignored` at the same time.
C1_Disjoint == DOMAIN monitored \cap ignored = {}

\* two handlers race on one id: both have fetched the container and inserted
\* it, and the id is monitored
C1_Witness ==
    \E t, u \in Tasks :
        /\ t # u
        /\ tasks[t].id = tasks[u].id /\ tasks[t].id \in DOMAIN monitored
        /\ tasks[t].inspects = 1 /\ tasks[u].inspects = 1

\* a monitored container other than the dead one has the url
SharedUrl(url) == \E j \in DOMAIN monitored : monitored[j].ping_url = url

\* C6: container_died with no other operation interleaved, for a monitored
\* container with url E: when another monitored container has E, no ping is
\* dispatched; when none has, the handler ends with exactly one ping, which
\* is for E, carries Unhealthy and is sent to E/fail.
C6_DiedAlone ==
    \A t \in Tasks :
        LET k == tasks[t]
            E == k.container[1].ping_url
        IN  k.op = "died" /\ k.container # None =>
              /\ SharedUrl(E) => k.dispatched = << >>
              /\ k.dispatched \in
                    {<< >>, <<[url |-> E, health |-> "Unhealthy"]>>}
              /\ k.pc = "done" /\ ~SharedUrl(E) =>
                    /\ k.dispatched = <<[url |-> E, health |-> "Unhealthy"]>>
                    /\ ~k.skipped
                    /\ Len(k.attempts) >= 1
                    /\ \A i \in 1..Len(k.attempts) :
                          k.attempts[i].url = E \o "/fail"

\* an Unhealthy container died and a Healthy one keeps its url: the status
\* of the url has changed and the handler has returned without a ping
C6_Witness ==
    \E t \in Tasks :
        LET k == tasks[t]
        IN  /\ k.op = "died" /\ k.pc = "done"
            /\ k.container # None
            /\ k.container[1].health = Some("Unhealthy")
            /\ \E j \in DOMAIN monitored :
                  /\ monitored[j].ping_url = k.container[1].ping_url
                  /\ monitored[j].health = Some("Healthy")
            /\ k.dispatched = << >>

\* the step of task t out of a test that finds its id in the ignored set
IgnoredStep(t) ==
    /\ tasks[t].pc \in {"st_check", "hu_check", "di_ignored"}
    /\ tasks[t].id \in ignored
    /\ tasks'[t] # tasks[t]
    /\ tasks'[t].op # "idle"

\* C7: a container without the label is never monitored and no handler for
\* its id dispatches a ping; container_started and container_health_update
\* for an id in the ignored set return without inspect, without ping and
\* leave both collections as they are; container_died for such an id removes
\* it from the ignored set and does nothing else.
C7_Unlabelled ==
    /\ [](\A id \in DOMAIN monitored : labels[id] # None)
    /\ [](\A t \in Tasks :
              tasks[t].id \in Ids /\ labels[tasks[t].id] = None
                  => tasks[t].dispatched = << >> /\ tasks[t].attempts = << >>)
    /\ [][\A t \in Tasks : IgnoredStep(t) =>
              /\ tasks'[t].pc = "done" /\ tasks'[t].result = "ok"
              /\ tasks'[t].inspects = 0
              /\ tasks'[t].dispatched = << >>
              /\ monitored' = monitored
              /\ starting' = starting
              /\ ignored' = IF tasks[t].op = "died"
                            THEN ignored \ {tasks[t].id} ELSE ignored]_vars

\* container_started for an id that an earlier handler put into the ignored
\* set has returned without an inspect
C7_Witness ==
    \E t \in Tasks :
        /\ tasks[t].op = "started" /\ tasks[t].pc = "done"
        /\ tasks[t].id \in ignored
        /\ labels[tasks[t].id] = None
        /\ tasks[t].inspects = 0

\* C8: the step of fetch_containers that replaces `monitored` replaces
\* `ignored` in the same step, both by the collections it has built; a
\* container that was monitored and is not in the listing is not monitored
\* after it; no step of fetch_containers dispatches a ping or touches the
\* dedup set.
C8_AtomicSwap ==
    /\ [][refresh'.swapped /\ ~refresh.swapped =>
              /\ monitored' = refresh'.containers
              /\ ignored' = refresh'.ignored_containers
              /\ DOMAIN monitored' \subseteq refresh'.listed
              /\ ignored' \subseteq refresh'.listed
              /\ \A id \in DOMAIN monitored \ refresh'.listed :
                    id \notin DOMAIN monitored']_vars
    /\ [][refresh' # refresh =>
              /\ tasks' = tasks
              /\ starting' = starting
              /\ refresh'.swapped = refresh.swapped =>
                    monitored' = monitored /\ ignored' = ignored]_vars

\* a refresh has swapped and a container that was monitored, and was not in
\* its listing, is gone
C8_Witness ==
    /\ refresh.pc = "done" /\ refresh.swapped
    /\ refresh.replaced \ refresh.listed # {}
    /\ refresh.replaced \cap DOMAIN monitored = {}

\* C9: a fetch_containers that meets an error (the list call, a summary
\* without id, the fetch of one container) returns the error and never
\* swaps: its steps leave `monitored` and `ignored` as they are, whatever it
\* has fetched before the error.
C9_FailedRefresh ==
    /\ [](refresh.failure # "none" =>
              /\ refresh.pc = "done" /\ refresh.result = "err"
              /\ ~refresh.swapped)
    /\ [][refresh' # refresh /\ refresh'.failure # "none" =>
              monitored' = monitored /\ ignored' = ignored]_vars

\* the fetch of the second listed container failed after the first one had
\* been fetched, and the monitored containers are not the ones fetched
C9_Witness ==
    /\ refresh.pc = "done" /\ refresh.failure = "inspect"
    /\ refresh.containers # EmptyMap
    /\ monitored # refresh.containers

\* C17: the swap of a fetch_containers that succeeds leaves `monitored`
\* united with `ignored` equal to the set of ids it listed, each id monitored
\* with its label as ping url when the container carries the label and
\* ignored when it does not; nothing of the collections before the swap is
\* kept, whatever a handler inserted or removed since the listing.
C17_SwapOverwrites ==
    [][refresh'.swapped /\ ~refresh.swapped =>
          /\ refresh'.result = "ok"
          /\ DOMAIN monitored' \cup ignored' = refresh'.listed
          /\ DOMAIN monitored' \cap ignored' = {}
          /\ \A id \in refresh'.listed :
                IF labels[id] = None
                THEN id \in ignored'
                ELSE /\ id \in DOMAIN monitored'
                     /\ monitored'[id].ping_url = labels[id][1]
                     /\ monitored'[id].health \in OptionHealth]_vars

\* a refresh has swapped; a container that was not registered when it listed
\* and not in its listing was monitored, inserted by a handler, when it
\* swapped, and is not registered after it
C17_Witness ==
    /\ refresh.pc = "done" /\ refresh.swapped
    /\ \E id \in refresh.replaced \ (refresh.known \cup refresh.listed) :
          id \notin DOMAIN monitored \cup ignored

\* C18: no step moves a container id directly from `monitored` to `ignored`
\* or from `ignored` to `monitored`: an id becomes monitored or ignored from
\* unknown, stays monitored, or is removed, in every interleaving of the
\* handlers and fetch_containers.
C18_NoDirectMove ==
    [][\A id \in Ids :
          /\ ~(id \in DOMAIN monitored /\ id \in ignored')
          /\ ~(id \in ignored /\ id \in DOMAIN monitored')]_vars

\* a refresh has swapped: a container monitored before the swap is monitored
\* after it, and a container unknown when the refresh listed is ignored
C18_Witness ==
    /\ refresh.pc = "done" /\ refresh.swapped
    /\ refresh.replaced \cap DOMAIN monitored # {}
    /\ ignored \ refresh.known # {}

(* -------------------- EventHandler::handle_event ---------------------- *)

\* EventMessage: type_ and action are Option<String>; actor is None, or an
\* actor whose id is an Option
EventTypes == {None, Some("container"), Some("image")}
EventActions ==
    {None, Some("start"), Some("die"), Some("stop"), Some("health_status"),
     Some("health_status: healthy"), Some("health_status: unhealthy"),
     Some("health_status: starting"), Some("health_status: paused"),
     Some("health_status: ")}
EventActors == {None, Some(None)} \cup {Some(Some(id)) : id \in Ids}
Events == [type_ : EventTypes, action : EventActions, actor : EventActors]

\* the strings an action can end with after the prefix "health_status: "
StatusWords == {"", "healthy", "unhealthy", "starting", "paused"}

\* str::strip_prefix on the actions above
strip_prefix(str, prefix) ==
    IF \E rest \in StatusWords : prefix \o rest = str
    THEN Some(CHOOSE rest \in StatusWords : prefix \o rest = str)
    ELSE None

\* get_container_id
get_container_id(event) ==
    IF event.actor = None THEN Err
    ELSE IF event.actor[1] = None THEN Err
    ELSE Ok(event.actor[1][1])

\* a status match whose arms for healthy and unhealthy are exchanged
HealthOfStatusSwapped(status) ==
    CASE status = "healthy" -> Ok("Unhealthy")
      [] status = "unhealthy" -> Ok("Healthy")
      [] status = "starting" -> Ok("Starting")
      [] OTHER -> Err

\* handle_container_health_status: the match on the status
HealthOfStatus(status) ==
    CASE status = "healthy" -> Ok("Healthy")
      [] status = "unhealthy" -> Ok("Unhealthy")
      [] status = "starting" -> Ok("Starting")
      [] OTHER -> Err

\* what an event makes its handler do: call one operation of the container
\* manager, or return Ok or Err without a call
NoCall(ok) == [op |-> "none", id |-> 0, arg |-> None, ok |-> ok]
Call(op, id, arg) == [op |-> op, id |-> id, arg |-> arg, ok |-> TRUE]

\* handle_container_start
handle_container_start(event) ==
    IF get_container_id(event).ok
    THEN Call("started", get_container_id(event).value, None)
    ELSE NoCall(FALSE)

\* handle_container_die
handle_container_die(event) ==
    IF get_container_id(event).ok
    THEN Call("died", get_container_id(event).value, None)
    ELSE NoCall(FALSE)

\* a handler that takes a status it does not know for unhealthy
handle_container_health_statusLenient(event, status) ==
    IF ~get_container_id(event).ok THEN NoCall(FALSE)
    ELSE Call("health", get_container_id(event).value,
              Some(IF HealthOfStatus(status).ok
                   THEN HealthOfStatus(status).value ELSE "Unhealthy"))

\* handle_container_health_status
handle_container_health_status(event, status) ==
    IF ~get_container_id(event).ok THEN NoCall(FALSE)
    ELSE IF ~HealthOfStatus(status).ok THEN NoCall(FALSE)
    ELSE Call("health", get_container_id(event).value,
              Some(HealthOfStatus(status).value))

\* handle_event: the match on (type_, action)
handle_event(event) ==
    IF event.type_ = Some("container") /\ event.action = Some("start")
    THEN handle_container_start(event)
    ELSE IF event.type_ = Some("container") /\ event.action = Some("die")
    THEN handle_container_die(event)
    ELSE IF event.type_ = Some("container") /\ event.action # None
    THEN IF strip_prefix(event.action[1], "health_status: ") # None
         THEN handle_container_health_status(
                  event, strip_prefix(event.action[1], "health_status: ")[1])
         ELSE NoCall(TRUE)
    ELSE NoCall(TRUE)

\* where the operations of the container manager start
EntryPc(op) ==
    CASE op = "started" -> "st_check"
      [] op = "died" -> "di_ignored"
      [] op = "health" -> "hu_check"

\* handle_raw_event: a task is spawned for the event and runs handle_event
\* up to the call of the container manager, or to its return
HandleEvent(t, event) ==
    LET d == handle_event(event)
        seen == [IdleTask EXCEPT !.event = Some(event)]
    IN  /\ tasks[t].pc = "idle"
        /\ \A u \in Tasks : u < t => tasks[u].pc # "idle"
        /\ tasks' = [tasks EXCEPT ![t] =
                IF d.op = "none"
                THEN Finish([seen EXCEPT !.op = "event"],
                            IF d.ok THEN "ok" ELSE "err")
                ELSE [seen EXCEPT !.op = d.op, !.pc = EntryPc(d.op),
                                  !.id = d.id, !.arg = d.arg]]
        /\ UNCHANGED <<monitored, ignored, writer, starting, ping_retries,
                       labels, refresh, ops, status_out,
                       last_call, last_sent, passed, main>>

\* events arrive and are dispatched; a handler that was called is dropped by
\* its timeout
NextEvent ==
    \E t \in Tasks :
        \/ \E event \in Events : HandleEvent(t, event)
        \/ Return(t) /\ UNCHANGED ops
        \/ Timeout(t) /\ UNCHANGED ops

SpecEvent == Init /\ [][NextEvent]_vars

\* the event is one that handle_event routes to an operation
Routed(event) ==
    /\ event.type_ = Some("container")
    /\ event.action \in {Some("start"), Some("die"),
                         Some("health_status: healthy"),
                         Some("health_status: unhealthy"),
                         Some("health_status: starting")}

\* the task of a routed event with a container id has been given the
\* operation of the event, for that id, with the health of the status
RoutedRight(k) ==
    LET event == k.event[1]
        id == event.actor[1][1]
    IN  /\ event.action = Some("start") =>
              k.op = "started" /\ k.id = id /\ k.arg = None
        /\ event.action = Some("die") =>
              k.op = "died" /\ k.id = id /\ k.arg = None
        /\ event.action = Some("health_status: healthy") =>
              k.op = "health" /\ k.id = id /\ k.arg = Some("Healthy")
        /\ event.action = Some("health_status: unhealthy") =>
              k.op = "health" /\ k.id = id /\ k.arg = Some("Unhealthy")
        /\ event.action = Some("health_status: starting") =>
              k.op = "health" /\ k.id = id /\ k.arg = Some("Starting")

\* the task has returned from handle_event without a call of the container
\* manager and without a ping
NothingDone(k) ==
    /\ k.op = "event" /\ k.pc = "done"
    /\ k.inspects = 0 /\ k.dispatched = << >> /\ k.attempts = << >>

\* the event has an actor with a container id
HasId(event) == event.actor # None /\ event.actor[1] # None

\* the action is a health_status with a status that is no health
BadStatus(event) ==
    /\ event.type_ = Some("container")
    /\ event.action \in {Some("health_status: paused"), Some("health_status: ")}

\* C11 as stated: an event with a container id calls the operation of its
\* (type, action); every other type or action calls no operation, sends no
\* ping and reports no error.
C11_AsStated ==
    \A t \in Tasks :
        LET k == tasks[t]
        IN  k.event # None /\ HasId(k.event[1]) =>
              /\ Routed(k.event[1]) => RoutedRight(k)
              /\ ~Routed(k.event[1]) => NothingDone(k) /\ k.result = "ok"

\* C11, amended: an event calls at most one operation: container/start,
\* container/die and container/health_status: healthy, unhealthy or starting
\* with a container id call container_started, container_died and
\* container_health_update for that id and health; every other event calls
\* no operation and sends no ping; it reports an error when it is one of
\* these without a container id or a container/health_status: with another
\* status, and no error otherwise.
C11_Dispatch ==
    \A t \in Tasks :
        LET k == tasks[t]
            event == k.event[1]
        IN  k.event # None =>
              /\ Routed(event) /\ HasId(event) => RoutedRight(k)
              /\ ~(Routed(event) /\ HasId(event)) =>
                    /\ NothingDone(k)
                    /\ k.result = "err" <=>
                          \/ Routed(event) /\ ~HasId(event)
                          \/ BadStatus(event)

\* a health_status: unhealthy event has called container_health_update with
\* Unhealthy, and an image event has returned without a call
C11_Witness ==
    \E t, u \in Tasks :
        /\ tasks[t].event # None /\ tasks[u].event # None
        /\ tasks[t].event[1].action = Some("health_status: unhealthy")
        /\ tasks[t].op = "health" /\ tasks[t].arg = Some("Unhealthy")
        /\ tasks[u].event[1].type_ = Some("image")
        /\ tasks[u].op = "event" /\ tasks[u].result = "ok"

(* ------------------------------ startup ------------------------------- *)

\* the configurations the environment can give: seconds up to MaxSeconds,
\* retries up to MaxRetries
Configs ==
    [ping_interval : 0..MaxSeconds, ping_retries : 0..MaxRetries,
     ping_timeout : 0..MaxSeconds, fetch_interval : 0..MaxSeconds,
     fetch_timeout : 0..MaxSeconds, event_timeout : 0..MaxSeconds]

\* the two ensure! of main
EnsureConfig(config) ==
    /\ config.ping_interval >= 1
    /\ config.fetch_interval >= 1

InitStartup ==
    /\ monitored = EmptyMap
    /\ ignored = {}
    /\ writer = 0
    /\ starting = {}
    /\ ping_retries = 0
    /\ labels \in Labellings
    /\ tasks = [t \in Tasks |-> IdleTask]
    /\ refresh = IdleRefresh
    /\ ops = 0
    /\ status_out = None
    /\ last_call = [e \in Endpoints |-> None]
    /\ last_sent = [e \in Endpoints |-> None]
    /\ passed = [e \in Endpoints |-> 0]
    /\ main \in [pc : {"load"}, config : Configs, sweep : {"idle"},
                 events : {"subscribing"}]

\* main: the configuration is loaded and checked
LoadConfig ==
    /\ main.pc = "load"
    /\ main' = [main EXCEPT !.pc = IF EnsureConfig(main.config)
                                   THEN "connect" ELSE "failed"]
    /\ UNCHANGED <<monitored, ignored, writer, starting, ping_retries, labels,
                   tasks, refresh, ops, status_out,
                   last_call, last_sent, passed>>

\* main: the docker daemon is pinged, and the container manager is created
\* with the configured retries
Connect(ok) ==
    /\ main.pc = "connect"
    /\ main' = [main EXCEPT !.pc = IF ok THEN "fetch" ELSE "failed"]
    /\ ping_retries' = IF ok THEN main.config.ping_retries ELSE ping_retries
    /\ UNCHANGED <<monitored, ignored, writer, starting, labels,
                   tasks, refresh, ops, status_out,
                   last_call, last_sent, passed>>

\* main: the first fetch_containers, before any task is spawned
StartupFetch ==
    /\ main.pc = "fetch"
    /\ \/ RefreshStart
       \/ RefreshListFails
       \/ \E listing \in Listings : RefreshList(listing)
       \/ \E responses \in [Ids -> AllResponses] : RefreshLoop(responses)
    /\ UNCHANGED ops

\* main: fetch_containers has returned; its error ends main, otherwise the
\* event task and the refresh loop are spawned and the ping loop starts
Spawned ==
    /\ main.pc = "fetch"
    /\ refresh.pc = "done"
    /\ main' = [main EXCEPT !.pc = IF refresh.result = "ok"
                                   THEN "running" ELSE "failed"]
    /\ refresh' = IdleRefresh
    /\ UNCHANGED <<monitored, ignored, writer, starting, ping_retries, labels,
                   tasks, ops, status_out, last_call, last_sent, passed>>

NextStartup ==
    \/ LoadConfig
    \/ \E ok \in BOOLEAN : Connect(ok)
    \/ StartupFetch
    \/ Spawned

SpecStartup == InitStartup /\ [][NextStartup]_vars

\* C12: whenever main has loaded a configuration whose ping interval, ping
\* timeout, fetch interval, fetch timeout or event timeout is zero, it ends
\* with an error and spawns no task: main runs its loops only with all five
\* at least one second.
C12_StartupRejectsZero ==
    main.pc = "running" =>
        /\ main.config.ping_interval >= 1
        /\ main.config.ping_timeout >= 1
        /\ main.config.fetch_interval >= 1
        /\ main.config.fetch_timeout >= 1
        /\ main.config.event_timeout >= 1

(* ------------------------- the loops of main -------------------------- *)

\* a sweep that pings only one url of the status map
SweepSlotsFirstOnly(status) ==
    CHOOSE f \in [1..(IF DOMAIN status = {} THEN 0 ELSE 1) -> DOMAIN status] :
        TRUE

\* the urls of a status map, one per task: join_all polls one future per
\* entry of the map
SweepSlots(status) ==
    CHOOSE f \in [1..Cardinality(DOMAIN status) -> DOMAIN status] :
        \A i, j \in DOMAIN f : f[i] = f[j] => i = j

\* the ping loop ticks: the write guard of main's lock is granted (the
\* refresh loop is between two calls), ping_healthchecks reads the status map
\* and starts one ping per entry
SweepStart(order) ==
    LET status == get_status_map(monitored, order)
        slots == SweepSlots(status)
    IN  /\ main.pc = "running" /\ main.sweep = "idle"
        /\ refresh.pc = "idle"
        /\ \A t \in Tasks : tasks[t].pc = "idle"
        /\ Unlocked
        /\ main' = [main EXCEPT !.sweep = "pinging"]
        /\ tasks' = [t \in Tasks |->
                IF t \in DOMAIN slots
                THEN [EnterPing(IdleTask, slots[t], status[slots[t]])
                          EXCEPT !.op = "sweep"]
                ELSE IdleTask]
        /\ UNCHANGED <<monitored, ignored, writer, starting, ping_retries,
                       labels, refresh, ops, status_out,
                       last_call, last_sent, passed>>

\* one of the pings of ping_healthchecks goes on
SweepPing(t) ==
    /\ tasks[t].op = "sweep"
    /\ \/ PingDedup(t)
       \/ \E ok \in BOOLEAN : PingAttempt(t, ok) /\ UNCHANGED last_sent
       \/ PingWake(t)
    /\ UNCHANGED ops

\* every ping of ping_healthchecks has returned, its error logged:
\* ping_healthchecks returns and the loop waits for its next tick
SweepReturn ==
    /\ main.sweep = "pinging"
    /\ \A t \in Tasks : tasks[t].pc \in {"idle", "done"}
    /\ main' = [main EXCEPT !.sweep = "idle"]
    /\ tasks' = [t \in Tasks |-> IdleTask]
    /\ UNCHANGED <<monitored, ignored, writer, starting, ping_retries,
                   labels, refresh, ops, status_out,
                   last_call, last_sent, passed>>

\* the timeout around ping_healthchecks expires: its pings are dropped, the
\* error is logged and the loop waits for its next tick
SweepTimeout ==
    /\ main.sweep = "pinging"
    /\ \E t \in Tasks : tasks[t].pc \notin {"idle", "done"}
    /\ main' = [main EXCEPT !.sweep = "idle"]
    /\ tasks' = [t \in Tasks |-> IdleTask]
    /\ UNCHANGED <<monitored, ignored, writer, starting, ping_retries,
                   labels, refresh, ops, status_out,
                   last_call, last_sent, passed>>

\* the refresh loop ticks: the write guard of main's lock is granted and
\* fetch_containers is called
RefreshTick == main.sweep = "idle" /\ RefreshStart /\ UNCHANGED ops

\* a call of fetch_containers by the refresh loop goes on, returns or is
\* dropped by its timeout
RefreshRuns == RefreshSteps /\ UNCHANGED ops

\* a call of ping_healthchecks by the ping loop goes on, returns or is
\* dropped by its timeout
SweepRuns ==
    \/ \E t \in Tasks : SweepPing(t)
    \/ SweepReturn
    \/ SweepTimeout

\* the tick of the ping loop
SweepTick == \E order \in Orders(DOMAIN monitored) : SweepStart(order)

\* the refresh loop and the ping loop of main
NextSched ==
    \/ RefreshTick
    \/ RefreshRuns
    \/ SweepTick
    \/ SweepRuns

\* the timers fire, the guard of main's lock is granted in turn, and a call
\* that does not go on is ended by its timeout
SpecSched ==
    /\ Init /\ [][NextSched]_vars
    /\ SF_vars(RefreshTick) /\ SF_vars(SweepTick)
    /\ WF_vars(RefreshRuns) /\ WF_vars(SweepRuns)

\* a call of ping_healthchecks in which a ping has returned an error
SweepFailed ==
    /\ main.sweep = "pinging"
    /\ \E t \in Tasks : tasks[t].pc = "done" /\ tasks[t].result = "err"

\* C13: once main runs its loops, the refresh loop calls fetch_containers
\* again and again and the ping loop calls ping_healthchecks again and again:
\* after a fetch_containers that returned an error or was dropped by its
\* timeout there is a later call, and after a ping_healthchecks in which a
\* ping failed, or that was dropped by its timeout, there is a later call.
C13_LoopsGoOn ==
    /\ (refresh.pc = "done" /\ refresh.result = "err") ~> (refresh.pc = "list")
    /\ (refresh.pc = "idle") ~> (refresh.pc = "list")
    /\ SweepFailed ~> (main.sweep = "idle")
    /\ (main.sweep = "idle") ~> (main.sweep = "pinging")

\* a ping of ping_healthchecks has failed after its retries, for the
\* containers an earlier fetch_containers found
C13_Witness ==
    /\ SweepFailed
    /\ monitored # EmptyMap
    /\ \E t \in Tasks : Len(tasks[t].attempts) = ping_retries + 1

(* ------------------- containers that die together --------------------- *)

\* the collections as an earlier fetch_containers can have left them: some
\* of the labelled containers monitored under their label, with any health,
\* and some of the others ignored
InitDie ==
    /\ labels \in Labellings
    /\ monitored \in {m \in Registries :
                         \A i \in DOMAIN m : labels[i] = Some(m[i].ping_url)}
    /\ ignored \in SUBSET {i \in Ids : labels[i] = None}
    /\ writer = 0
    /\ starting = {}
    /\ ping_retries = 1
    /\ tasks = [t \in Tasks |-> IdleTask]
    /\ refresh = IdleRefresh
    /\ ops = 0
    /\ status_out = None
    /\ last_call = [e \in Endpoints |-> None]
    /\ last_sent = [e \in Endpoints |-> None]
    /\ passed = [e \in Endpoints |-> 0]
    /\ main = Running

\* die events only, each handled in its task up to its return; the tasks
\* keep what they have done
NextDie ==
    \E t \in Tasks :
        \/ \E id \in Ids : EventDied(t, id) /\ Budget
        \/ DiedIgnored(t) /\ UNCHANGED ops
        \/ DiedRemove(t) /\ UNCHANGED ops
        \/ \E order \in Orders(DOMAIN monitored) :
              DiedRead(t, order) /\ UNCHANGED ops
        \/ PingDedup(t) /\ UNCHANGED ops
        \/ \E ok \in BOOLEAN : PingAttempt(t, ok)
              /\ UNCHANGED <<ops, last_sent>>
        \/ PingWake(t) /\ UNCHANGED ops

SpecDie == InitDie /\ [][NextDie]_vars

\* the handlers of container_died that removed a container with the url
DiedOf(url) ==
    {t \in Tasks : /\ tasks[t].op = "died" /\ tasks[t].container # None
                   /\ tasks[t].container[1].ping_url = url}

\* the handlers of container_died that dispatched a ping for the url
DiedPinged(url) ==
    {t \in DiedOf(url) : tasks[t].dispatched # << >>}

\* C14: once every monitored container with url E has died and every
\* handler of container_died has returned, exactly one Unhealthy ping for E
\* has been dispatched by these handlers.
C14_OnePingPerUrl ==
    \A E \in Endpoints :
        /\ \A t \in Tasks : tasks[t].pc \in {"idle", "done"}
        /\ DiedOf(E) # {}
        /\ ~SharedUrl(E)
        => /\ Cardinality(DiedPinged(E)) = 1
           /\ \A t \in DiedPinged(E) :
                 tasks[t].dispatched = <<[url |-> E, health |-> "Unhealthy"]>>

(* ---------------- events of one container that race ------------------- *)

\* the event handlers, each in its task up to its return; no handler is
\* dropped by its timeout and the tasks keep what they have done
NextRace ==
    \E t \in Tasks :
        \/ HandlerStarts(t) /\ Budget
        \/ CheckIgnored(t) /\ UNCHANGED ops
        \/ \E data \in AllResponses : StartedInspect(t, data) /\ UNCHANGED ops
        \/ \E order \in Orders(DOMAIN monitored) :
              PingOne(t, order) /\ UNCHANGED ops
        \/ DiedIgnored(t) /\ UNCHANGED ops
        \/ DiedRemove(t) /\ UNCHANGED ops
        \/ \E order \in Orders(DOMAIN monitored) :
              DiedRead(t, order) /\ UNCHANGED ops
        \/ HealthLock(t) /\ UNCHANGED ops
        \/ \E data \in AllResponses : HealthInspect(t, data) /\ UNCHANGED ops
        \/ PingDedup(t) /\ UNCHANGED ops
        \/ \E ok \in BOOLEAN : PingAttempt(t, ok)
              /\ UNCHANGED <<ops, last_sent>>
        \/ PingWake(t) /\ UNCHANGED ops

SpecRace == Init /\ [][NextRace]_vars

\* the handlers of the events of the container
HandlersOf(id) == {t \in Tasks : tasks[t].op # "idle" /\ tasks[t].id = id}

\* C15: once the handler of a die event of a container and the handlers of
\* all other events of the container have returned, its id is neither in
\* `monitored` nor in `ignored`.
C15_GoneAfterDeath ==
    \A id \in Ids :
        /\ \E t \in HandlersOf(id) : tasks[t].op = "died"
        /\ \A t \in HandlersOf(id) : tasks[t].pc = "done"
        => id \notin DOMAIN monitored /\ id \notin ignored

(* --------------------- pings of one url that overlap ------------------- *)

\* history: the request the task sends is the latest sent to its url
RecordSent(t) ==
    last_sent' = [last_sent EXCEPT ![tasks[t].url] = tasks[t].health]

\* concurrent callers of ping, every try_ping recorded as the latest request
\* of its url
NextSent ==
    \E t \in Tasks :
        \/ \E url \in Endpoints, health \in Health :
              PingCall(t, url, health) /\ Budget /\ UNCHANGED last_call
        \/ PingDedup(t) /\ UNCHANGED ops
        \/ \E ok \in BOOLEAN : PingAttempt(t, ok) /\ RecordSent(t)
                                                  /\ UNCHANGED ops
        \/ PingWake(t) /\ UNCHANGED ops
        \/ Return(t) /\ UNCHANGED ops

SpecSent == InitPing /\ [][NextSent]_vars

\* a call of ping for the url has updated `starting` and has not made its
\* first request yet
BetweenDedupAndSend(e) ==
    \E t \in Tasks : /\ tasks[t].url = e
                     /\ tasks[t].pc = "ping_try"
                     /\ tasks[t].attempts = << >>

\* C16: whenever no call of ping for a url is between its dedup update and
\* its first request, the url is in `starting` exactly when the latest ping
\* sent for it was Starting, also when pings for the url with different
\* healths run concurrently.
C16_SetIsLastStarting ==
    \A e \in Endpoints :
        ~BetweenDedupAndSend(e)
            => (e \in starting <=> last_sent[e] = Some("Starting"))

(* ------------------- aggregation as a pure function -------------------- *)

\* get_status_map is called and visits the containers in some order
GetStatusMap(order) ==
    /\ status_out' = Some(get_status_map(monitored, order))
    /\ UNCHANGED <<monitored, ignored, writer, starting, ping_retries, labels,
                   tasks, refresh, ops, last_call, last_sent, passed, main>>

InitStatus ==
    /\ monitored \in Registries
    /\ ignored = {}
    /\ writer = 0
    /\ starting = {}
    /\ ping_retries = 0
    /\ labels = [i \in Ids |-> None]
    /\ tasks = [t \in Tasks |-> IdleTask]
    /\ refresh = IdleRefresh
    /\ ops = 0
    /\ status_out = None
    /\ last_call = [e \in Endpoints |-> None]
    /\ last_sent = [e \in Endpoints |-> None]
    /\ passed = [e \in Endpoints |-> 0]
    /\ main = Running

NextStatus == \E order \in Orders(DOMAIN monitored) : GetStatusMap(order)

SpecStatus == InitStatus /\ [][NextStatus]_vars

\* the order Healthy < Unhealthy < Starting, written out
AtMost(a, b) ==
    \/ a = "Healthy"
    \/ a = "Unhealthy" /\ b \in {"Unhealthy", "Starting"}
    \/ a = "Starting" /\ b = "Starting"

\* the health a monitored container counts with: absent counts as Healthy
Counted(c) == IF c.health = None THEN "Healthy" ELSE c.health[1]

\* C2: the map get_status_map returns has exactly the ping urls of the
\* monitored containers as keys, and maps each url to the greatest health,
\* under Healthy < Unhealthy < Starting, of the monitored containers with that
\* url (absent health counting as Healthy), whatever the order of the visit.
C2_StatusMapIsMax ==
    status_out # None =>
        LET m == status_out[1]
        IN  /\ DOMAIN m = {monitored[i].ping_url : i \in DOMAIN monitored}
            /\ \A e \in DOMAIN m :
                  /\ \E i \in DOMAIN monitored :
                        monitored[i].ping_url = e /\ Counted(monitored[i]) = m[e]
                  /\ \A i \in DOMAIN monitored :
                        monitored[i].ping_url = e
                            => AtMost(Counted(monitored[i]), m[e])

\* two containers share a url, one without health and one Starting, and the
\* map computed for them says Starting
C2_Witness ==
    /\ status_out # None
    /\ \E i, j \in DOMAIN monitored :
          /\ i # j
          /\ monitored[i].ping_url = monitored[j].ping_url
          /\ monitored[i].health = None
          /\ monitored[j].health = Some("Starting")
          /\ status_out[1][monitored[i].ping_url] = "Starting"

(* ------------------ the pings the handlers dispatch -------------------- *)

\* the monitored containers with the ping url
Holders(e) == {i \in DOMAIN monitored : monitored[i].ping_url = e}

\* the aggregated status of a ping url: the greatest health of its holders,
\* or Unhealthy, the default of ping_one, when it has none
Aggregated(e) ==
    IF Holders(e) = {} THEN "Unhealthy"
    ELSE CHOOSE h \in Health :
            /\ \E i \in Holders(e) : Counted(monitored[i]) = h
            /\ \A i \in Holders(e) : AtMost(Counted(monitored[i]), h)

\* task t, running the handler op, takes the step that inserts what its
\* inspect returned
Inserts(t, op, pc) ==
    /\ tasks[t].op = op /\ tasks[t].pc = pc
    /\ tasks'[t].op = op /\ tasks'[t].pc \in {"pone_read", "done"}
    /\ tasks'[t].inspects = tasks[t].inspects + 1
    /\ tasks'[t].result # "err"

\* task t, running the handler op, takes the step of ping_one
PingsOne(t, op) ==
    /\ tasks[t].op = op /\ tasks[t].pc = "pone_read"
    /\ tasks'[t].op = op /\ tasks'[t].pc = "ping_lock"

\* C19: container_started for an id that is not ignored and whose inspect
\* succeeds: with the label, the id is inserted into `monitored` with the
\* inspected ping url and health, and then exactly one ping is dispatched,
\* for that url, with the aggregated status of the url read after the
\* insert; without the label, the id is inserted into `ignored`, `monitored`
\* stays as it is and no ping is dispatched.
C19_StartedContract ==
    /\ [][\A t \in Tasks :
            /\ Inserts(t, "started", "st_inspect") =>
                  LET id == tasks[t].id
                  IN  IF labels[id] # None
                      THEN /\ tasks'[t].pc = "pone_read"
                           /\ tasks'[t].container # None
                           /\ tasks'[t].container[1].ping_url = labels[id][1]
                           /\ tasks'[t].url = labels[id][1]
                           /\ monitored' =
                                 MapInsert(monitored, id, tasks'[t].container[1])
                           /\ tasks'[t].dispatched = << >>
                      ELSE /\ tasks'[t].pc = "done"
                           /\ ignored' = ignored \cup {id}
                           /\ monitored' = monitored
                           /\ tasks'[t].dispatched = << >>
            /\ PingsOne(t, "started") =>
                  /\ monitored' = monitored
                  /\ tasks'[t].dispatched =
                        <<[url |-> tasks[t].url,
                           health |-> Aggregated(tasks[t].url)]>>]_vars
    /\ [](\A t \in Tasks :
            tasks[t].op = "started" =>
               /\ Len(tasks[t].dispatched) =
                     IF tasks[t].pc \in {"ping_lock", "ping_try", "ping_sleep"}
                        \/ (tasks[t].pc = "done" /\ tasks[t].container # None)
                     THEN 1 ELSE 0
               /\ tasks[t].container # None =>
                     tasks[t].pc \in {"pone_read", "ping_lock", "ping_try",
                                      "ping_sleep", "done"})

\* a start handler inserted a container that is Healthy and dispatched a
\* Starting ping: another container with the same url was starting when it
\* read the status
C19_Witness ==
    \E t \in Tasks :
        /\ tasks[t].op = "started"
        /\ tasks[t].container # None
        /\ tasks[t].container[1].health = Some("Healthy")
        /\ tasks[t].dispatched =
              <<[url |-> tasks[t].url, health |-> "Starting"]>>

\* task t, running container_health_update, finds its container monitored
\* when it holds the write guard
UpdatesHealth(t) ==
    /\ tasks[t].op = "health" /\ tasks[t].pc = "hu_lock"
    /\ tasks[t].id \in DOMAIN monitored
    /\ tasks'[t].op = "health" /\ tasks'[t].pc # "hu_lock"

\* C20: container_health_update(id, h) for a monitored id sets the health of
\* the record of id to h and leaves its ping url, every other record and
\* `ignored` as they are, without an inspect call; then it dispatches exactly
\* one ping, for the ping url of the record, with the aggregated status of
\* the url read after the update.
C20_HealthUpdateContract ==
    /\ [][\A t \in Tasks :
            /\ UpdatesHealth(t) =>
                  LET id == tasks[t].id
                  IN  /\ DOMAIN monitored' = DOMAIN monitored
                      /\ monitored'[id].health = tasks[t].arg
                      /\ monitored'[id].ping_url = monitored[id].ping_url
                      /\ \A i \in DOMAIN monitored \ {id} :
                            monitored'[i] = monitored[i]
                      /\ ignored' = ignored
                      /\ tasks'[t].inspects = 0
                      /\ tasks'[t].pc = "pone_read"
                      /\ tasks'[t].url = monitored[id].ping_url
                      /\ tasks'[t].dispatched = << >>
            /\ PingsOne(t, "health") =>
                  /\ monitored' = monitored /\ ignored' = ignored
                  /\ tasks'[t].inspects = tasks[t].inspects
                  /\ tasks'[t].dispatched =
                        <<[url |-> tasks[t].url,
                           health |-> Aggregated(tasks[t].url)]>>]_vars
    /\ [](\A t \in Tasks :
            tasks[t].op = "health" /\ tasks[t].url # "" =>
               Len(tasks[t].dispatched) =
                  IF tasks[t].pc = "pone_read" THEN 0 ELSE 1)

\* a health update found its container monitored, made it Unhealthy without
\* an inspect, and dispatched one Unhealthy ping for its url
C20_Witness ==
    \E t \in Tasks :
        /\ tasks[t].op = "health" /\ tasks[t].arg = Some("Unhealthy")
        /\ tasks[t].inspects = 0
        /\ tasks[t].id \in DOMAIN monitored
        /\ monitored[tasks[t].id].health = Some("Unhealthy")
        /\ tasks[t].dispatched =
              <<[url |-> monitored[tasks[t].id].ping_url,
                 health |-> "Unhealthy"]>>

\* task t, running container_health_update, returns the error of its inspect
InspectFails(t) ==
    /\ tasks[t].op = "health" /\ tasks[t].pc = "hu_inspect"
    /\ tasks'[t].op = "health" /\ tasks'[t].pc = "done"
    /\ tasks'[t].result = "err"

\* C21: container_health_update for an id in neither collection inspects
\* the container: with the label, the id is inserted into `monitored` with
\* the record of the inspect (its ping url and its inspected health, not the
\* health of the event) and one ping with the aggregated status of the url
\* is dispatched; without the label, the id is inserted into `ignored` and
\* no ping is dispatched; when the inspect fails the handler returns an
\* error, both collections stay as they are and no ping is dispatched.
C21_HealthUpdateInspects ==
    /\ [][\A t \in Tasks :
            /\ Inserts(t, "health", "hu_inspect") =>
                  LET id == tasks[t].id
                  IN  IF labels[id] # None
                      THEN /\ tasks'[t].pc = "pone_read"
                           /\ tasks'[t].container # None
                           /\ tasks'[t].container[1].ping_url = labels[id][1]
                           /\ tasks'[t].url = labels[id][1]
                           /\ DOMAIN monitored' = DOMAIN monitored \cup {id}
                           /\ monitored'[id] = tasks'[t].container[1]
                           /\ \A i \in DOMAIN monitored \ {id} :
                                 monitored'[i] = monitored[i]
                           /\ ignored' = ignored
                           /\ tasks'[t].dispatched = << >>
                      ELSE /\ tasks'[t].pc = "done"
                           /\ ignored' = ignored \cup {id}
                           /\ monitored' = monitored
                           /\ tasks'[t].dispatched = << >>
            /\ InspectFails(t) =>
                  /\ monitored' = monitored /\ ignored' = ignored
                  /\ tasks'[t].inspects = 1
                  /\ tasks'[t].dispatched = << >>]_vars
    /\ [](\A t \in Tasks :
            tasks[t].op = "health" /\ tasks[t].inspects > 0 =>
               /\ tasks[t].inspects = 1
               /\ Len(tasks[t].dispatched) =
                     IF tasks[t].pc \in {"ping_lock", "ping_try", "ping_sleep"}
                        \/ (tasks[t].pc = "done" /\ tasks[t].container # None)
                     THEN 1 ELSE 0
               /\ \A k \in 1..Len(tasks[t].dispatched) :
                     tasks[t].dispatched[k].url = tasks[t].url)

\* the handler of an Unhealthy event inspected its container, inserted it
\* with the Healthy of the inspect, and dispatched one ping
C21_Witness ==
    \E t \in Tasks :
        /\ tasks[t].op = "health" /\ tasks[t].arg = Some("Unhealthy")
        /\ tasks[t].inspects = 1
        /\ tasks[t].container # None
        /\ tasks[t].container[1].health = Some("Healthy")
        /\ tasks[t].id \in DOMAIN monitored
        /\ monitored[tasks[t].id] = tasks[t].container[1]
        /\ Len(tasks[t].dispatched) = 1

\* task t takes the step of ping_one, whatever handler it runs
CallsPingOne(t) ==
    /\ tasks[t].pc = "pone_read"
    /\ tasks'[t].op = tasks[t].op /\ tasks'[t].pc = "ping_lock"

\* C22: ping_one(url) dispatches exactly one ping, for url: with the
\* aggregated status of url when a monitored container has the url at the
\* time the status map is read, and with Unhealthy when none has.
C22_PingOne ==
    [][\A t \in Tasks :
          CallsPingOne(t) =>
             LET e == tasks[t].url
                 sent == tasks'[t].dispatched
             IN  /\ Len(sent) = Len(tasks[t].dispatched) + 1
                 /\ \A k \in 1..Len(tasks[t].dispatched) :
                       sent[k] = tasks[t].dispatched[k]
                 /\ sent[Len(sent)].url = e
                 /\ tasks'[t].url = e
                 /\ IF \E i \in DOMAIN monitored : monitored[i].ping_url = e
                    THEN \E i \in DOMAIN monitored :
                            /\ monitored[i].ping_url = e
                            /\ Counted(monitored[i]) = sent[Len(sent)].health
                            /\ \A j \in DOMAIN monitored :
                                  monitored[j].ping_url = e =>
                                     AtMost(Counted(monitored[j]),
                                            Counted(monitored[i]))
                    ELSE sent[Len(sent)].health = "Unhealthy"]_vars

\* a start handler inserted a Healthy container, which is monitored no more,
\* and dispatched an Unhealthy ping for its url, which no container has
C22_Witness ==
    \E t \in Tasks :
        /\ tasks[t].op = "started"
        /\ tasks[t].container # None
        /\ tasks[t].container[1].health = Some("Healthy")
        /\ tasks[t].id \notin DOMAIN monitored
        /\ \A i \in DOMAIN monitored : monitored[i].ping_url # tasks[t].url
        /\ tasks[t].dispatched =
              <<[url |-> tasks[t].url, health |-> "Unhealthy"]>>

\* the tasks that run a ping of ping_healthchecks
Sweepers == {t \in Tasks : tasks[t].op = "sweep"}

\* C23: ping_healthchecks reads the status map once and calls ping exactly
\* once for each url of that map, with the aggregated health of the url,
\* and for no other url; a ping that fails after its retries leaves the
\* other pings of the call as they are, and the call returns with main
\* still running.
C23_SweepPingsEach ==
    /\ [][main.sweep = "idle" /\ main'.sweep = "pinging" =>
            /\ \A e \in Endpoints :
                  Cardinality({t \in Tasks : /\ tasks'[t].op = "sweep"
                                             /\ tasks'[t].url = e})
                     = IF Holders(e) = {} THEN 0 ELSE 1
            /\ \A t \in Tasks :
                  tasks'[t].op = "sweep" =>
                     tasks'[t].dispatched =
                        <<[url |-> tasks'[t].url,
                           health |-> Aggregated(tasks'[t].url)]>>]_vars
    /\ [][main.sweep = "pinging" /\ main'.sweep = "pinging" =>
            /\ \A t \in Tasks :
                  /\ tasks'[t].op = tasks[t].op
                  /\ tasks'[t].url = tasks[t].url
                  /\ tasks'[t].dispatched = tasks[t].dispatched
            /\ \A t, u \in Tasks :
                  t # u /\ tasks'[t] # tasks[t] => tasks'[u] = tasks[u]
            /\ \A t \in Tasks :
                  tasks'[t].pc = "done" /\ tasks[t].pc # "done"
                  /\ tasks'[t].result = "err"
                     => \A u \in Tasks \ {t} : tasks'[u] = tasks[u]]_vars
    /\ [][main.sweep = "pinging" /\ main'.sweep = "idle" =>
            /\ main'.pc = "running"
            /\ tasks' = [t \in Tasks |-> IdleTask]]_vars
    /\ [](main.sweep = "pinging" /\ (\A t \in Sweepers : tasks[t].pc = "done")
            => ENABLED SweepReturn)

\* in one call of ping_healthchecks the ping of one url has failed after its
\* retries and the ping of another url, tried after that failure, has
\* succeeded
C23_Witness ==
    /\ main.sweep = "pinging"
    /\ \E t, u \in Sweepers :
          /\ tasks[t].url # tasks[u].url
          /\ tasks[t].pc = "done" /\ tasks[t].result = "err"
          /\ Len(tasks[t].attempts) = ping_retries + 1
          /\ tasks[u].pc = "done" /\ tasks[u].result = "ok"
          /\ Len(tasks[u].attempts) >= 1

(* ---------------- events with a status that is no health --------------- *)

\* container events: starts, deaths and health_status events with a health
\* or with another status, with a container id or without an actor
StatusEvents ==
    [type_ : {Some("container")},
     action : {Some("start"), Some("die"), Some("health_status: healthy"),
               Some("health_status: paused"), Some("health_status: ")},
     actor : {None} \cup {Some(Some(id)) : id \in Ids}]

\* handle_raw_event for each event in a task of its own, and the handlers
\* up to their return; the tasks keep what they have done
NextStatusEvents ==
    \E t \in Tasks :
        \/ \E event \in StatusEvents : HandleEvent(t, event)
        \/ CheckIgnored(t) /\ UNCHANGED ops
        \/ \E data \in AllResponses : StartedInspect(t, data) /\ UNCHANGED ops
        \/ \E order \in Orders(DOMAIN monitored) :
              PingOne(t, order) /\ UNCHANGED ops
        \/ DiedIgnored(t) /\ UNCHANGED ops
        \/ DiedRemove(t) /\ UNCHANGED ops
        \/ \E order \in Orders(DOMAIN monitored) :
              DiedRead(t, order) /\ UNCHANGED ops
        \/ HealthLock(t) /\ UNCHANGED ops
        \/ \E data \in AllResponses : HealthInspect(t, data) /\ UNCHANGED ops
        \/ PingDedup(t) /\ UNCHANGED ops
        \/ \E ok \in BOOLEAN : PingAttempt(t, ok)
              /\ UNCHANGED <<ops, last_sent>>
        \/ PingWake(t) /\ UNCHANGED ops

SpecStatusEvents == Init /\ [][NextStatusEvents]_vars

\* the task handles an event with a status that is no health
HandlesBadStatus(k) == k.event # None /\ BadStatus(k.event[1])

\* C24: the handling of a container health_status event whose status is not
\* healthy, unhealthy or starting ends with an error; it calls no operation
\* of the container manager, leaves `monitored`, `ignored` and the dedup set
\* as they are and sends no ping, and the handlers of other events, before,
\* after or at the same time, are left as they are.
C24_BadStatusIsError ==
    /\ [](\A t \in Tasks :
            HandlesBadStatus(tasks[t]) =>
               /\ tasks[t].op = "event" /\ tasks[t].pc = "done"
               /\ tasks[t].result = "err"
               /\ tasks[t].inspects = 0
               /\ tasks[t].dispatched = << >> /\ tasks[t].attempts = << >>
               /\ writer # t)
    /\ [][\A t \in Tasks :
            HandlesBadStatus(tasks'[t]) /\ ~HandlesBadStatus(tasks[t]) =>
               /\ monitored' = monitored /\ ignored' = ignored
               /\ starting' = starting /\ writer' = writer
               /\ \A u \in Tasks \ {t} : tasks'[u] = tasks[u]]_vars

\* the handler of a health_status: paused event has returned an error while
\* the handler of an earlier event is sending its ping
C24_Witness ==
    /\ HandlesBadStatus(tasks[2])
    /\ tasks[2].event[1].action = Some("health_status: paused")
    /\ tasks[2].result = "err"
    /\ tasks[1].op \in {"started", "health"}
    /\ tasks[1].pc = "ping_try"

(* --------------------------- the event stream -------------------------- *)

\* handle_events: docker.events(..) at the top of the outer loop
Subscribe ==
    /\ main.events = "subscribing"
    /\ main' = [main EXCEPT !.events = "streaming"]
    /\ UNCHANGED <<monitored, ignored, writer, starting, ping_retries, labels,
                   tasks, refresh, ops, status_out,
                   last_call, last_sent, passed>>

\* an outer loop that ends with its stream
StreamEndedStops(m) == [m EXCEPT !.events = "stopped"]

\* handle_events: the while let loop is left and the outer loop goes round
StreamEnded(m) == [m EXCEPT !.events = "subscribing"]

\* stream.next() is None: the connection is gone
StreamEnds ==
    /\ main.events = "streaming"
    /\ main' = StreamEnded(main)
    /\ UNCHANGED <<monitored, ignored, writer, starting, ping_retries, labels,
                   tasks, refresh, ops, status_out,
                   last_call, last_sent, passed>>

\* the events of the stream: the start of a container and a health status
\* that is no health
StreamEvents ==
    [type_ : {Some("container")},
     action : {Some("start"), Some("health_status: paused")},
     actor : {Some(Some(1))}]

\* the daemon has one container, with or without the label
InitStream == Init /\ labels[2] = None

\* stream.next() is an event: a task is spawned for it
StreamEvent(t, event) == main.events = "streaming" /\ HandleEvent(t, event)

\* stream.next() is an error: the task spawned for it logs the error
StreamError(t) ==
    /\ main.events = "streaming"
    /\ tasks[t].pc = "idle"
    /\ \A u \in Tasks : u < t => tasks[u].pc # "idle"
    /\ tasks' = [tasks EXCEPT ![t] =
                    Finish([IdleTask EXCEPT !.op = "event"], "err")]
    /\ UNCHANGED <<monitored, ignored, writer, starting, ping_retries, labels,
                   refresh, ops, status_out, last_call, last_sent, passed,
                   main>>

\* the task of an event has returned, its error logged, and is dropped
Dropped(t) == Return(t) /\ UNCHANGED ops

\* the event task and the tasks it spawns
NextStream ==
    \/ Subscribe
    \/ StreamEnds
    \/ \E t \in Tasks :
          \/ \E event \in StreamEvents : NoneDone /\ StreamEvent(t, event)
          \/ NoneDone /\ StreamError(t)
          \/ NoneDone /\ HandlerSteps(t) /\ UNCHANGED ops
          \/ NoneDone /\ PingDedup(t) /\ UNCHANGED ops
          \/ \E ok \in BOOLEAN : NoneDone /\ PingAttempt(t, ok)
                /\ UNCHANGED <<ops, last_sent>>
          \/ NoneDone /\ PingWake(t) /\ UNCHANGED ops
          \/ Dropped(t)

\* the event task runs on, and a task that has returned is dropped
SpecStream ==
    /\ InitStream /\ [][NextStream]_vars
    /\ WF_vars(Subscribe)
    /\ \A t \in Tasks : WF_vars(Dropped(t))

\* the handling of an event has ended with an error
HandlingFailed == \E t \in Tasks : tasks[t].pc = "done" /\ tasks[t].result = "err"

\* the next event of the stream can be taken
Consuming == main.events = "streaming" /\ \E t \in Tasks : tasks[t].pc = "idle"

\* C25: whenever the event stream ends the event task subscribes again and
\* goes on taking events; its outer loop never ends; an event that is an
\* error, whose handling fails or is dropped by its timeout, ends neither the
\* stream nor another handler, and later events are taken.
C25_StreamGoesOn ==
    /\ (main.events = "subscribing") ~> (main.events = "streaming")
    /\ [](main.pc = "running" /\ main.events \in {"subscribing", "streaming"})
    /\ HandlingFailed ~> Consuming
    /\ [][\A t \in Tasks :
            (\/ /\ tasks'[t].pc = "done" /\ tasks[t].pc # "done"
                /\ tasks'[t].result = "err"
             \/ /\ tasks[t].pc \notin {"idle", "done"}
                /\ tasks'[t].pc = "idle")
            => /\ main' = main
               /\ \A u \in Tasks \ {t} : tasks'[u] = tasks[u]]_vars

\* the stream has ended while the task of an event whose handling failed
\* after an inspect has not been dropped yet
C25_Witness ==
    /\ main.events = "subscribing"
    /\ \E t \in Tasks :
          /\ tasks[t].pc = "done" /\ tasks[t].result = "err"
          /\ tasks[t].inspects = 1

(* ------------------------ locks and http calls ------------------------- *)

\* the task is in an http attempt of ping or in the delay before a retry
InHttp(t) == tasks[t].pc \in {"ping_try", "ping_sleep"}

\* C26: no task asks for the write guard of `containers` while it holds it,
\* no task holds a guard while its ping is in an http attempt or a retry
\* delay, and so a ping that is slow or failing never keeps an operation of
\* the container manager from starting: while a ping is in progress and no
\* fetch_containers runs, the refresh loop can call fetch_containers.
C26_PingBlocksNothing ==
    /\ \A t \in Tasks : writer = t => tasks[t].pc = "hu_inspect"
    /\ \A t \in Tasks : InHttp(t) => writer # t
    /\ (\E t \in Tasks : InHttp(t)) /\ main.pc = "running"
                                    /\ refresh.pc = "idle"
          => ENABLED RefreshTick

(* --------------------- pings after a ping that failed ------------------ *)

\* no call of ping is running: the calls follow each other
NoCallRunning == \A t \in Tasks : tasks[t].pc \in {"idle", "done"}

\* calls of ping that follow each other: the first is made by task 1, which
\* keeps what it has done; the later ones by task 2, one after the other
NextAfter ==
    \E t \in Tasks :
        \/ \E url \in Endpoints, health \in Health :
              /\ NoCallRunning
              /\ PingCall(t, url, health) /\ RecordCall(url, health)
              /\ BudgetSolo
        \/ PingDedup(t) /\ UNCHANGED ops
        \/ \E ok \in BOOLEAN : PingAttempt(t, ok)
              /\ UNCHANGED <<ops, last_sent>>
        \/ PingWake(t) /\ UNCHANGED ops
        \/ t = 2 /\ Return(t) /\ UNCHANGED ops

SpecAfter == InitPing /\ [][NextAfter]_vars

\* the call of the task was a Starting ping that has failed after its retries
FailedStarting(k) ==
    /\ k.op = "ping" /\ k.health = Some("Starting")
    /\ k.pc = "done" /\ k.result = "err"

\* C27: ping updates the dedup set before its first attempt and no attempt,
\* failed or not, changes the set: after a Starting ping for a url has failed
\* with its retries exhausted the url is in the set as long as the latest
\* ping called for it is a Starting one, and a Starting ping that follows a
\* Starting ping for the url returns success without an attempt.
C27_NoRollback ==
    /\ [][\A t \in Tasks :
            tasks[t].pc = "ping_try" /\ tasks'[t].pc # "ping_try"
               => starting' = starting]_vars
    /\ [](\A t \in Tasks :
            tasks[t].pc \in {"ping_try", "ping_sleep"}
            /\ tasks[t].health = Some("Starting")
               => tasks[t].url \in starting)
    /\ [](\A t \in Tasks :
            FailedStarting(tasks[t]) =>
               /\ Len(tasks[t].attempts) = ping_retries + 1
               /\ (last_call[tasks[t].url] = Some("Starting")
                   /\ \A u \in Tasks : tasks[u].pc # "ping_lock")
                     => tasks[t].url \in starting)
    /\ [](FailedStarting(tasks[1]) =>
            LET k == tasks[2]
            IN  (/\ k.op = "ping" /\ PastDedup(k)
                 /\ k.url = tasks[1].url
                 /\ k.health = Some("Starting") /\ k.prev = Some("Starting"))
                   => /\ k.skipped /\ k.attempts = << >>
                      /\ k.pc = "done" /\ k.result = "ok")

\* a Starting ping has failed after two attempts and the Starting ping for
\* its url that was called next has returned success without an attempt
C27_Witness ==
    /\ FailedStarting(tasks[1])
    /\ Len(tasks[1].attempts) = 2
    /\ ops = 2
    /\ tasks[2].op = "ping" /\ tasks[2].url = tasks[1].url
    /\ tasks[2].health = Some("Starting")
    /\ tasks[2].pc = "done" /\ tasks[2].result = "ok"
    /\ tasks[2].attempts = << >>
    /\ tasks[2].url \in starting

(* ------------------- the sweep and the pings that were lost ------------ *)

\* the step leaves the monitored containers as they are
RegistryStable == monitored' = monitored

\* the step is neither an http attempt that fails nor the timeout of a sweep
HttpSucceeds ==
    /\ \A t \in Tasks :
          Len(tasks'[t].attempts) > Len(tasks[t].attempts)
             => tasks'[t].attempts[Len(tasks'[t].attempts)].ok
    /\ ~(/\ main.sweep = "pinging" /\ main'.sweep = "idle"
         /\ \E t \in Tasks : tasks[t].pc \notin {"idle", "done"})

\* the url has monitored containers and its aggregated status is not Starting
Sweepable(e) == Holders(e) # {} /\ Aggregated(e) \in {"Healthy", "Unhealthy"}

\* a ping of the sweep has been sent for the url, with its current
\* aggregated status, and has succeeded
SweptCurrent(e) ==
    \E t \in Sweepers :
        /\ tasks[t].url = e
        /\ tasks[t].health = Some(Aggregated(e))
        /\ tasks[t].pc = "done" /\ tasks[t].result = "ok"
        /\ tasks[t].attempts # << >>

\* C28: under fair scheduling, once the monitored containers change no more
\* and no http attempt fails and no sweep is dropped by its timeout, the ping
\* loop sends, again and again, a ping with the aggregated status of every
\* url that has monitored containers and whose status is Healthy or
\* Unhealthy.
C28_SweepRepairs ==
    (<>[][RegistryStable]_vars /\ <>[][HttpSucceeds]_vars)
        => \A e \in Endpoints : []<>(Sweepable(e) => SweptCurrent(e))

\* a ping of the sweep for a url whose containers are Unhealthy has succeeded
\* at its second attempt
C28_Witness ==
    \E t \in Sweepers :
        /\ Sweepable(tasks[t].url)
        /\ SweptCurrent(tasks[t].url)
        /\ tasks[t].health = Some("Unhealthy")
        /\ Len(tasks[t].attempts) = 2

====
